---- MODULE Spec2Model ----
(***************************************************************************)
(* Model of bornprofiler/membrane.py: the parameter store (BaseMem,        *)
(* APBSmem, BornAPBSmem), the template renderer (write), the two external  *)
(* invokers (run_apbs, run_drawmembrane) and the two generate pipelines.   *)
(*                                                                         *)
(* Representation                                                          *)
(*   - Python numbers are tagged: IntV(n) is the int n, FloatV(h) is the   *)
(*     float h/100.  str() of a number is a sequence of one-character      *)
(*     strings, so that serialisations can be parsed back.                 *)
(*   - Python str values that are only passed around (file names, infixes, *)
(*     pqr names) are TLA+ strings.                                        *)
(*   - an array (numpy.array of a user value) is [nd, m]: nd the number of *)
(*     dimensions, m the rows (a scalar is one row of one entry, a vector  *)
(*     is one row).                                                        *)
(*   - self is the instance's __dict__: a function from attribute names.   *)
(*   - fs maps a file name to its content; only the input decks written by *)
(*     write() are tracked, the files the external tools produce are not.  *)
(***************************************************************************)
EXTENDS Integers, Sequences, FiniteSets, TLC

VARIABLES
    DRAWMEMBRANE,   \* configuration["drawmembrane"], read at import
    TEMPLATES,      \* stage -> placeholders of the template text
    fs,             \* file name -> content
    cls,            \* class of the instance: "none" before construction
    self,           \* the instance's __dict__
    pc,             \* position of the caller / of generate()
    it,             \* index of the for loop in BornAPBSmem.generate
    trace,          \* what the current generate() run has done so far
    last,           \* what the last operation did
    warned          \* whether warnings.warn has been called

vars == <<DRAWMEMBRANE, TEMPLATES, fs, cls, self, pc, it, trace, last, warned>>

----------------------------------------------------------------------------
(* Bounds of the model *)

\* longest vector / largest number of rows and columns of a grid input
MaxShape == 4

----------------------------------------------------------------------------
(* Python values and str() *)

IntV(n) == [float |-> FALSE, v |-> n]
\* the float h/100
FloatV(h) == [float |-> TRUE, v |-> h]

Digit(d) ==
    CASE d = 0 -> "0" [] d = 1 -> "1" [] d = 2 -> "2" [] d = 3 -> "3"
      [] d = 4 -> "4" [] d = 5 -> "5" [] d = 6 -> "6" [] d = 7 -> "7"
      [] d = 8 -> "8" [] d = 9 -> "9"

RECURSIVE NatStr(_)
NatStr(n) ==
    IF n < 10 THEN <<Digit(n)>> ELSE NatStr(n \div 10) \o <<Digit(n % 10)>>

Abs(n) == IF n < 0 THEN -n ELSE n

\* str(x) of an int or of a float with at most two decimals: an int prints
\* its digits, a float always prints a decimal point and at least one decimal
str(x) ==
    LET a == Abs(x.v)
        sign == IF x.v < 0 THEN <<"-">> ELSE <<>>
        f == a % 100
        frac == IF f % 10 = 0 THEN <<Digit(f \div 10)>>
                ELSE <<Digit(f \div 10), Digit(f % 10)>>
    IN  IF x.float THEN sign \o NatStr(a \div 100) \o <<".">> \o frac
        ELSE sign \o NatStr(a)

RECURSIVE join(_, _)
\* sep.join(strs)
join(sep, strs) ==
    IF Len(strs) = 0 THEN <<>>
    ELSE IF Len(strs) = 1 THEN strs[1]
    ELSE strs[1] \o sep \o join(sep, Tail(strs))

\* BaseMem.vec2str: " ".join(map(str, vec)); vec holds ints
vec2str(vec) == join(<<" ">>, [i \in DOMAIN vec |-> str(IntV(vec[i]))])

----------------------------------------------------------------------------
(* numpy arrays *)

Scalar(n) == [nd |-> 0, m |-> <<<<n>>>>]
Vector(v) == [nd |-> 1, m |-> <<v>>]
Matrix(m) == [nd |-> 2, m |-> m]

\* numpy.array(x).shape
shape(a) ==
    CASE a.nd = 0 -> <<>>
      [] a.nd = 1 -> <<Len(a.m[1])>>
      [] a.nd = 2 -> <<Len(a.m), Len(a.m[1])>>

\* numpy.concatenate([a, a, a]) of a vector
concatenate3(a) == Vector(a.m[1] \o a.m[1] \o a.m[1])

\* reshape filling column by column (Fortran order)
reshape_column_major(a, r, c) ==
    Matrix([i \in 1..r |-> [j \in 1..c |-> a.m[1][(j - 1) * r + i]]])

\* a.reshape(r, c) of a vector of r*c entries: row-major
reshape(a, r, c) ==
    Matrix([i \in 1..r |-> [j \in 1..c |-> a.m[1][(i - 1) * c + j]]])

\* iterating over an array: the rows of a matrix, the entries of a vector
rows(a) == IF a.nd = 2 THEN a.m ELSE a.m[1]

----------------------------------------------------------------------------
(* Keyword arguments *)

NoKwargs == [k \in {} |-> 0]

\* kwargs.pop(k, default): the value
pop(kw, k, default) == IF k \in DOMAIN kw THEN kw[k] ELSE default

\* kwargs after popping the keys ks
popped(kw, ks) == [k \in DOMAIN kw \ ks |-> kw[k]]

\* d.update(e), also self.__dict__.update(e) and attribute assignment
update(d, e) == e @@ d

----------------------------------------------------------------------------
(* Configuration and class attributes *)

\* a path is the sequence of its components; os.path.basename is the last
basename(path) == path[Len(path)]

\* configuration["apbs"]
APBS == <<"apbs">>

Stages == {"dummy", "solvation", "born_dummy", "born_run"}

----------------------------------------------------------------------------
(* BaseMem.__init__ *)

BaseMemKeywords ==
    {"zmem", "lmem", "Vmem", "mdie", "sdie", "pdie", "headgroup_die",
     "headgroup_l", "Rtop", "Rbot", "temp", "conc"}

\* the attributes with the temperature read from the keyword 'temperature'
BaseMemAttributes_temperature_keyword(kw) ==
    [zmem        |-> pop(kw, "zmem", FloatV(0)),
     lmem        |-> pop(kw, "lmem", FloatV(4000)),
     Vmem        |-> pop(kw, "Vmem", FloatV(0)),
     mdie        |-> pop(kw, "mdie", FloatV(200)),
     sdie        |-> pop(kw, "sdie", FloatV(8000)),
     pdie        |-> pop(kw, "pdie", FloatV(1000)),
     hdie        |-> pop(kw, "headgroup_die", FloatV(2000)),
     lhgp        |-> pop(kw, "headgroup_l", FloatV(0)),
     Rtop        |-> pop(kw, "Rtop", IntV(0)),
     Rbot        |-> pop(kw, "Rbot", IntV(0)),
     temperature |-> pop(kw, "temperature", FloatV(29815)),
     conc        |-> pop(kw, "conc", FloatV(10))]

\* the attributes BaseMem.__init__ sets from kwargs and its defaults
BaseMemAttributes(kw) ==
    [zmem        |-> pop(kw, "zmem", FloatV(0)),
     lmem        |-> pop(kw, "lmem", FloatV(4000)),
     Vmem        |-> pop(kw, "Vmem", FloatV(0)),
     mdie        |-> pop(kw, "mdie", FloatV(200)),
     sdie        |-> pop(kw, "sdie", FloatV(8000)),
     pdie        |-> pop(kw, "pdie", FloatV(1000)),
     hdie        |-> pop(kw, "headgroup_die", FloatV(2000)),
     lhgp        |-> pop(kw, "headgroup_l", FloatV(0)),
     Rtop        |-> pop(kw, "Rtop", IntV(0)),
     Rbot        |-> pop(kw, "Rbot", IntV(0)),
     temperature |-> pop(kw, "temp", FloatV(29815)),
     conc        |-> pop(kw, "conc", FloatV(10))]

\* the warning of lines 75-79 is emitted
BaseMemWarns(drawmembrane) == basename(drawmembrane) # "draw_membrane2a"

\* BaseMem.__init__ raising where lines 75-79 warn
BaseMem_init_raises(s, drawmembrane, kw) ==
    [self   |-> update(s, BaseMemAttributes(kw)),
     warned |-> BaseMemWarns(drawmembrane),
     err    |-> IF BaseMemWarns(drawmembrane) THEN "EnvironmentError"
                ELSE IF DOMAIN popped(kw, BaseMemKeywords) # {}
                THEN "TypeError"
                ELSE "none"]

\* BaseMem.__init__(self, **kw): the instance, and the TypeError of
\* object.__init__ when keywords are left over
BaseMem_init(s, drawmembrane, kw) ==
    [self   |-> update(s, BaseMemAttributes(kw)),
     warned |-> BaseMemWarns(drawmembrane),
     err    |-> IF DOMAIN popped(kw, BaseMemKeywords) # {} THEN "TypeError"
                ELSE "none"]

----------------------------------------------------------------------------
(* APBSmem.__init__ *)

APBSmem_vars ==
    [dummy |-> <<"pqr", "suffix", "pdie", "sdie", "conc", "temperature",
                 "DIME_XYZ", "GLEN_XYZ">>,
     solvation |-> <<"pqr", "suffix", "pdie", "sdie", "conc", "temperature",
                     "", "DIME_XYZ", "GLEN_XYZ">>,
     drawmembrane2 |-> <<"zmem", "lmem", "pdie", "Vmem", "conc", "Rtop",
                         "Rbot", "suffix">>]

APBSmem_filenames(suffix) ==
    [dummy     |-> "dummy" \o suffix \o ".in",
     solvation |-> "solvation" \o suffix \o ".in"]

\* APBSmem(pqr, suffix, **kw); dime and glen are used as given (vectors).
\* at: the statement that raised, or the last one
APBSmem_init(pqr, suffix, drawmembrane, kw) ==
    LET dime == pop(kw, "dime", Vector(<<97, 97, 97>>))
        glen == pop(kw, "glen", Vector(<<250, 250, 250>>))
        s == [pqr       |-> pqr,
              suffix    |-> suffix,
              dime      |-> dime,
              glen      |-> glen,
              filenames |-> APBSmem_filenames(suffix),
              vars      |-> APBSmem_vars,
              DIME_XYZ  |-> vec2str(rows(dime)),
              GLEN_XYZ  |-> vec2str(rows(glen))]
    IN  [at |-> "super"]
        @@ BaseMem_init(s, drawmembrane, popped(kw, {"dime", "glen"}))

----------------------------------------------------------------------------
(* BornAPBSmem.__init__ *)

suffices == <<"L", "M", "S">>

\* the infixes with _prot_S in the place of _cpx_S
infices_repeated ==
    <<"_prot_L", "_prot_M", "_prot_S", "_cpx_L", "_cpx_M", "_prot_S">>

infices == <<"_prot_L", "_prot_M", "_prot_S", "_cpx_L", "_cpx_M", "_cpx_S">>

BornAPBSmem_vars ==
    [born_dummy |-> <<"protein_pqr", "ion_pqr", "complex_pqr",
                      "pdie", "sdie", "conc", "temperature",
                      "DIME_XYZ_L", "DIME_XYZ_M", "DIME_XYZ_S",
                      "GLEN_XYZ_L", "GLEN_XYZ_M", "GLEN_XYZ_S">>,
     born_run |-> <<"protein_pqr", "ion_pqr", "complex_pqr",
                    "pdie", "sdie", "conc", "temperature", "comment",
                    "DIME_XYZ_L", "DIME_XYZ_M", "DIME_XYZ_S",
                    "GLEN_XYZ_L", "GLEN_XYZ_M", "GLEN_XYZ_S">>,
     drawmembrane2 |-> <<"zmem", "lmem", "pdie", "Vmem", "conc", "Rtop",
                         "Rbot">>]

BornAPBSmem_filenames ==
    [born_dummy |-> "mem_dummy.in", born_run |-> "mem_placeion.in"]

\* lines 221-227 testing only the first axis: dime.shape[0] == 3
BornAPBSmem_dime_first_axis(kw) ==
    LET dime == pop(kw, "dime", Vector(<<97, 97, 97>>))
    IN  IF ~(Len(shape(dime)) >= 1 /\ shape(dime)[1] = 3)
        THEN [err |-> "TypeError", dime |-> dime]
        ELSE IF Len(shape(dime)) = 1
        THEN [err |-> "none", dime |-> reshape(concatenate3(dime), 3, 3)]
        ELSE [err |-> "none", dime |-> dime]

\* lines 221-227: the dime attribute, or the TypeError
BornAPBSmem_dime(kw) ==
    LET dime == pop(kw, "dime", Vector(<<97, 97, 97>>))
    IN  IF ~(shape(dime) = <<3>> \/ shape(dime) = <<3, 3>>)
        THEN [err |-> "TypeError", dime |-> dime]
        ELSE IF Len(shape(dime)) = 1
        THEN [err |-> "none", dime |-> reshape(concatenate3(dime), 3, 3)]
        ELSE [err |-> "none", dime |-> dime]

\* lines 228-231 treating glen as lines 221-227 treat dime
BornAPBSmem_glen_broadcast(kw) ==
    LET glen == pop(kw, "glen",
                    Matrix(<<<<250, 250, 250>>, <<100, 100, 100>>,
                             <<50, 50, 50>>>>))
    IN  IF ~(shape(glen) = <<3>> \/ shape(glen) = <<3, 3>>)
        THEN [err |-> "TypeError", glen |-> glen]
        ELSE IF Len(shape(glen)) = 1
        THEN [err |-> "none", glen |-> reshape(concatenate3(glen), 3, 3)]
        ELSE [err |-> "none", glen |-> glen]

\* lines 228-231: the glen attribute, or the TypeError
BornAPBSmem_glen(kw) ==
    LET glen == pop(kw, "glen",
                    Matrix(<<<<250, 250, 250>>, <<100, 100, 100>>,
                             <<50, 50, 50>>>>))
    IN  IF ~(shape(glen) = <<3, 3>>)
        THEN [err |-> "TypeError", glen |-> glen]
        ELSE [err |-> "none", glen |-> glen]

Min(a, b) == IF a <= b THEN a ELSE b

\* lines 251-254: the DIME_XYZ_<suffix> and GLEN_XYZ_<suffix> entries of d
BornAPBSmem_names(dime, glen) ==
    LET n == Min(Len(suffices), Min(Len(rows(dime)), Len(rows(glen))))
        ix(name, prefix) == CHOOSE i \in 1..n : name = prefix \o suffices[i]
        dnames == {"DIME_XYZ_" \o suffices[i] : i \in 1..n}
        gnames == {"GLEN_XYZ_" \o suffices[i] : i \in 1..n}
    IN  [k \in dnames |-> vec2str(rows(dime)[ix(k, "DIME_XYZ_")])]
        @@ [k \in gnames |-> vec2str(rows(glen)[ix(k, "GLEN_XYZ_")])]

\* BornAPBSmem(protein_pqr, ion_pqr, complex_pqr, **kw)
BornAPBSmem_init(protein_pqr, ion_pqr, complex_pqr, drawmembrane, kw) ==
    LET d == BornAPBSmem_dime(kw)
        g == BornAPBSmem_glen(kw)
        s == [protein_pqr |-> protein_pqr,
              ion_pqr     |-> ion_pqr,
              complex_pqr |-> complex_pqr,
              suffices    |-> suffices,
              infices     |-> infices,
              suffix      |-> "",
              comment     |-> pop(kw, "comment", "BORNPROFILE"),
              dime        |-> d.dime,
              glen        |-> g.glen,
              filenames   |-> BornAPBSmem_filenames,
              vars        |-> BornAPBSmem_vars]
    IN  IF d.err # "none"
        THEN [self |-> NoKwargs, warned |-> FALSE, err |-> d.err, at |-> "dime"]
        ELSE IF g.err # "none"
        THEN [self |-> NoKwargs, warned |-> FALSE, err |-> g.err, at |-> "glen"]
        ELSE [at |-> "super"]
             @@ BaseMem_init(update(s, BornAPBSmem_names(d.dime, g.glen)),
                             drawmembrane,
                             popped(kw, {"comment", "dime", "glen"}))

----------------------------------------------------------------------------
(* Files and the record of an operation *)

Absent == [k |-> "absent", stage |-> "", subst |-> NoKwargs]
\* a file left by an earlier run
Old == [k |-> "old", stage |-> "", subst |-> NoKwargs]
\* a file opened with mode 'w' and not written
Empty == [k |-> "empty", stage |-> "", subst |-> NoKwargs]
\* TEMPLATES[stage] % subst
Rendered(stage, subst) == [k |-> "rendered", stage |-> stage, subst |-> subst]

\* one operation: what it was called with, whether it opened its file or
\* spawned its process, and how it ended
Event(op, stage, kw, file, before, opened, called, cmd, rc, err) ==
    [op |-> op, stage |-> stage, kw |-> kw, file |-> file, before |-> before,
     opened |-> opened, called |-> called, cmd |-> cmd, rc |-> rc, err |-> err]

NoEvent == Event("none", "", NoKwargs, "", Absent, FALSE, FALSE, <<>>, 0, "none")

----------------------------------------------------------------------------
(* BaseMem: the renderer *)

\* the elements of a sequence
Range(seq) == {seq[i] : i \in DOMAIN seq}

\* BaseMem.get_var_dict: the tokens of self.vars[stage].split(',') carry no
\* white space, so k.strip() is k; a token that is no attribute is a KeyError
get_var_dict(s, stage) ==
    IF stage \notin DOMAIN s.vars THEN [err |-> "KeyError", d |-> NoKwargs]
    ELSE IF \E k \in Range(s.vars[stage]) : k \notin DOMAIN s
    THEN [err |-> "KeyError", d |-> NoKwargs]
    ELSE [err |-> "none", d |-> [k \in Range(s.vars[stage]) |-> s[k]]]

NumericNames ==
    {"zmem", "lmem", "Vmem", "mdie", "sdie", "pdie", "hdie", "lhgp", "Rtop",
     "Rbot", "temperature", "conc"}

\* what %(k)s substitutes for the value v of k: str(v)
format_s(k, v) == IF k \in NumericNames THEN str(v) ELSE v

\* outfile without the suffix of the instance
outfile_without_suffix(s, stage) == stage \o ".out"

\* BaseMem.outfile
outfile(s, stage) == stage \o s.suffix \o ".out"

\* write opening the file before it collects the slots (line 94 before 92)
write_open_first(s, f, t, stage, kw) ==
    LET v == get_var_dict(s, stage)
        vardict == update(v.d, kw)
        name == s.filenames[stage]
        ev(file, before, opened, err) ==
            Event("write", stage, kw, file, before, opened, FALSE, <<>>, 0, err)
    IN  IF stage \notin DOMAIN s.filenames
        THEN [fs |-> f, ev |-> ev("", Absent, FALSE, "KeyError")]
        ELSE IF \/ v.err # "none"
                \/ stage \notin DOMAIN t
                \/ ~(t[stage] \subseteq DOMAIN vardict)
        THEN [fs |-> [f EXCEPT ![name] = Empty],
              ev |-> ev(name, f[name], TRUE, "KeyError")]
        ELSE [fs |-> [f EXCEPT ![name] =
                        Rendered(stage,
                                 [k \in t[stage] |-> format_s(k, vardict[k])])],
              ev |-> ev(name, f[name], TRUE, "none")]

\* write opening the file for appending (mode 'a' on line 94)
write_append(s, f, t, stage, kw) ==
    LET v == get_var_dict(s, stage)
        vardict == update(v.d, kw)
        name == s.filenames[stage]
        text == [k \in t[stage] |-> format_s(k, vardict[k])]
        ev(file, before, opened, err) ==
            Event("write", stage, kw, file, before, opened, FALSE, <<>>, 0, err)
    IN  IF v.err # "none"
        THEN [fs |-> f, ev |-> ev("", Absent, FALSE, v.err)]
        ELSE IF stage \notin DOMAIN s.filenames
        THEN [fs |-> f, ev |-> ev("", Absent, FALSE, "KeyError")]
        ELSE IF stage \notin DOMAIN t \/ ~(t[stage] \subseteq DOMAIN vardict)
        THEN [fs |-> [f EXCEPT ![name] = IF @ = Absent THEN Empty ELSE @],
              ev |-> ev(name, f[name], TRUE, "KeyError")]
        ELSE [fs |-> [f EXCEPT ![name] =
                        IF @ \in {Absent, Empty} THEN Rendered(stage, text)
                        ELSE [k |-> "appended", stage |-> stage,
                              subst |-> text]],
              ev |-> ev(name, f[name], TRUE, "none")]

\* BaseMem.write(stage, **kw) on the files f with the templates t: the
\* files afterwards and the operation's record
write(s, f, t, stage, kw) ==
    LET v == get_var_dict(s, stage)
        vardict == update(v.d, kw)
        name == s.filenames[stage]
        ev(file, before, opened, err) ==
            Event("write", stage, kw, file, before, opened, FALSE, <<>>, 0, err)
    IN  IF v.err # "none"
        THEN [fs |-> f, ev |-> ev("", Absent, FALSE, v.err)]
        ELSE IF stage \notin DOMAIN s.filenames
        THEN [fs |-> f, ev |-> ev("", Absent, FALSE, "KeyError")]
        ELSE IF stage \notin DOMAIN t \/ ~(t[stage] \subseteq DOMAIN vardict)
        THEN [fs |-> [f EXCEPT ![name] = Empty],
              ev |-> ev(name, f[name], TRUE, "KeyError")]
        ELSE [fs |-> [f EXCEPT ![name] =
                        Rendered(stage,
                                 [k \in t[stage] |-> format_s(k, vardict[k])])],
              ev |-> ev(name, f[name], TRUE, "none")]

----------------------------------------------------------------------------
(* BaseMem: the external invokers *)

\* run_apbs without the check of the return code (lines 109-112)
run_apbs_unchecked(s, stage, rc) ==
    IF stage \notin DOMAIN s.filenames
    THEN Event("run_apbs", stage, NoKwargs, "", Absent, FALSE, FALSE, <<>>, 0,
               "KeyError")
    ELSE Event("run_apbs", stage, NoKwargs, "", Absent, FALSE, TRUE,
               <<APBS, "--output-file=" \o outfile(s, stage),
                 s.filenames[stage]>>, rc, "none")

\* BaseMem.run_apbs(stage) when the solver would exit with rc
run_apbs(s, stage, rc) ==
    LET cmd == <<APBS, "--output-file=" \o outfile(s, stage),
                 s.filenames[stage]>>
        ev(called, c, r, err) ==
            Event("run_apbs", stage, NoKwargs, "", Absent, FALSE, called, c, r,
                  err)
    IN  IF stage \notin DOMAIN s.filenames
        THEN ev(FALSE, <<>>, 0, "KeyError")
        ELSE IF rc # 0 THEN ev(TRUE, cmd, rc, "EnvironmentError")
        ELSE ev(TRUE, cmd, rc, "none")

\* the keys with pdie and Vmem exchanged
DrawmembraneArgs_reordered ==
    <<"zmem", "lmem", "Vmem", "pdie", "conc", "Rtop", "Rbot">>

\* the keys line 123-124 reads, in the order of the command line
DrawmembraneArgs == <<"zmem", "lmem", "pdie", "Vmem", "conc", "Rtop", "Rbot">>

\* run_drawmembrane without the check of the return code (lines 127-130)
run_drawmembrane_unchecked(s, drawmembrane, kw, rc) ==
    LET stage == pop(kw, "stage", "drawmembrane2")
        d == get_var_dict(s, stage)
        infix == pop(kw, "infix", s.suffix)
        v == update(d.d, popped(kw, {"stage", "infix"}))
        cmdline == <<drawmembrane, infix>>
                   \o [i \in DOMAIN DrawmembraneArgs |->
                         str(v[DrawmembraneArgs[i]])]
    IN  IF d.err # "none" \/ ~(Range(DrawmembraneArgs) \subseteq DOMAIN v)
        THEN Event("run_drawmembrane", stage, kw, "", Absent, FALSE, FALSE,
                   <<>>, 0, "KeyError")
        ELSE Event("run_drawmembrane", stage, kw, "", Absent, FALSE, TRUE,
                   cmdline, rc, "none")

\* BaseMem.run_drawmembrane(**kw) when the tool would exit with rc
run_drawmembrane(s, drawmembrane, kw, rc) ==
    LET stage == pop(kw, "stage", "drawmembrane2")
        d == get_var_dict(s, stage)
        infix == pop(kw, "infix", s.suffix)
        v == update(d.d, popped(kw, {"stage", "infix"}))
        cmdline == <<drawmembrane, infix>>
                   \o [i \in DOMAIN DrawmembraneArgs |->
                         str(v[DrawmembraneArgs[i]])]
        ev(called, c, r, err) ==
            Event("run_drawmembrane", stage, kw, "", Absent, FALSE, called, c,
                  r, err)
    IN  IF d.err # "none" THEN ev(FALSE, <<>>, 0, d.err)
        ELSE IF ~(Range(DrawmembraneArgs) \subseteq DOMAIN v)
        THEN ev(FALSE, <<>>, 0, "KeyError")
        ELSE IF rc # 0 THEN ev(TRUE, cmdline, rc, "EnvironmentError")
        ELSE ev(TRUE, cmdline, rc, "none")

----------------------------------------------------------------------------
(* The inputs of the model *)

\* exit codes of an external process: success, failure
ExitCodes == {0, 1}

DrawmembraneChoices ==
    {<<"draw_membrane2a">>, <<"usr", "local", "bin", "draw_membrane2">>}

\* the placeholders of a template: the slots its stage declares
TemplateSlots(stage) ==
    Range(IF stage \in DOMAIN APBSmem_vars THEN APBSmem_vars[stage]
          ELSE BornAPBSmem_vars[stage]) \ {""}

\* the templates as declared, and templates that also carry a comment line
TemplateChoices ==
    {[st \in Stages |-> TemplateSlots(st) \cup extra] :
        extra \in {{}, {"comment"}}}

DimeEntry(i, j) == 32 * (8 * i + j) + 1
GlenEntry(i, j) == 1000 - 100 * i + j

\* the entry at row i, column j of the caller's value for the keyword key
Entry(key, i, j) == IF key = "dime" THEN DimeEntry(i, j) ELSE GlenEntry(i, j)

VectorsOf(key) ==
    {Vector([j \in 1..n |-> Entry(key, 1, j)]) : n \in 1..MaxShape}

MatricesOf(key) ==
    {Matrix([i \in 1..r |-> [j \in 1..c |-> Entry(key, i, j)]]) :
        r \in 1..MaxShape, c \in 1..MaxShape}

GridInputs(key) ==
    {Scalar(Entry(key, 1, 1))} \cup VectorsOf(key) \cup MatricesOf(key)

\* keywords for BaseMem; the last two name no keyword of BaseMem.__init__
BaseKwargs ==
    {NoKwargs,
     [zmem |-> FloatV(-1050), Vmem |-> FloatV(25), conc |-> FloatV(15),
      Rtop |-> IntV(5), Rbot |-> IntV(3), sdie |-> FloatV(7850),
      temp |-> FloatV(31000), headgroup_l |-> FloatV(800)],
     [temperature |-> FloatV(31000)],
     [headgroup_length |-> FloatV(800)]}

\* the keywords the set above leaves at their defaults
MoreBaseKwargs ==
    {[lmem |-> FloatV(3000), mdie |-> FloatV(400), pdie |-> FloatV(1200),
      headgroup_die |-> FloatV(2500)]}

Optional(key, values) == {NoKwargs} \cup {[k \in {key} |-> v] : v \in values}

BornAPBSmemKwargs ==
    {d @@ g @@ b : d \in Optional("dime", GridInputs("dime")),
                   g \in Optional("glen", GridInputs("glen")),
                   b \in BaseKwargs}

APBSmemKwargs ==
    {d @@ b : d \in Optional("dime", {Vector(<<DimeEntry(1, 1), DimeEntry(1, 2),
                                              DimeEntry(1, 3)>>)}),
              b \in BaseKwargs \cup MoreBaseKwargs}

Suffixes == {"_S", "_M"}

\* stages a caller may name: each class has two of the four, and the slot
\* list of the geometry tool is no stage of the renderer or the solver
CallStages == Stages \cup {"drawmembrane2"}

WriteKwargs == {NoKwargs, [comment |-> "TEST", conc |-> FloatV(25)]}

DrawmembraneKwargs ==
    {NoKwargs,
     [zmem |-> FloatV(500)],
     [infix |-> "_y", Rtop |-> IntV(7)],
     [stage |-> "dummy"]}

----------------------------------------------------------------------------
(* The state machine *)

Init ==
    /\ DRAWMEMBRANE \in DrawmembraneChoices
    /\ TEMPLATES \in TemplateChoices
    /\ \E c \in {Absent, Old} :
          fs = [n \in {"mem_dummy.in", "mem_placeion.in"}
                      \cup {"dummy" \o x \o ".in" : x \in Suffixes}
                      \cup {"solvation" \o x \o ".in" : x \in Suffixes} |-> c]
    /\ cls = "none"
    /\ self = NoKwargs
    /\ pc = "new"
    /\ it = 1
    /\ trace = <<>>
    /\ last = NoEvent
    /\ warned = FALSE

\* the effect of a finished constructor call r of class c
Constructed(c, kw, r) ==
    /\ cls' = IF r.err = "none" THEN c ELSE "none"
    /\ self' = IF r.err = "none" THEN r.self ELSE NoKwargs
    /\ pc' = IF r.err = "none" THEN "idle" ELSE "raised"
    /\ warned' = r.warned
    /\ last' = Event(c \o ".__init__", r.at, kw, "", Absent, FALSE, FALSE,
                     <<>>, 0, r.err)
    /\ UNCHANGED <<DRAWMEMBRANE, TEMPLATES, fs, it, trace>>

New_APBSmem ==
    /\ pc = "new"
    /\ \E suffix \in Suffixes, kw \in APBSmemKwargs :
          Constructed("APBSmem", kw,
                      APBSmem_init("prot.pqr", suffix, DRAWMEMBRANE, kw))

New_BornAPBSmem ==
    /\ pc = "new"
    /\ \E kw \in BornAPBSmemKwargs :
          Constructed("BornAPBSmem", kw,
                      BornAPBSmem_init("prot.pqr", "ion.pqr", "cpx.pqr",
                                       DRAWMEMBRANE, kw))

(* Calls of the caller on the instance, outside generate *)

\* write updating the instance's own attributes with the overrides
Call_write_keeps_overrides ==
    /\ pc = "idle"
    /\ \E stage \in CallStages, kw \in WriteKwargs :
          LET r == write(self, fs, TEMPLATES, stage, kw)
          IN  /\ fs' = r.fs
              /\ last' = r.ev
              /\ self' = update(self, kw)
    /\ UNCHANGED <<DRAWMEMBRANE, TEMPLATES, cls, pc, it, trace, warned>>

Call_write ==
    /\ pc = "idle"
    /\ \E stage \in CallStages, kw \in WriteKwargs :
          LET r == write(self, fs, TEMPLATES, stage, kw)
          IN  /\ fs' = r.fs
              /\ last' = r.ev
    /\ UNCHANGED <<DRAWMEMBRANE, TEMPLATES, cls, self, pc, it, trace, warned>>

Call_run_apbs ==
    /\ pc = "idle"
    /\ \E stage \in CallStages, rc \in ExitCodes :
          last' = run_apbs(self, stage, rc)
    /\ UNCHANGED <<DRAWMEMBRANE, TEMPLATES, fs, cls, self, pc, it, trace,
                   warned>>

\* run_drawmembrane storing the infix of the call as the instance's suffix
Call_run_drawmembrane_keeps_infix ==
    /\ pc = "idle"
    /\ \E kw \in DrawmembraneKwargs, rc \in ExitCodes :
          /\ last' = run_drawmembrane(self, DRAWMEMBRANE, kw, rc)
          /\ self' = [self EXCEPT !.suffix = pop(kw, "infix", @)]
    /\ UNCHANGED <<DRAWMEMBRANE, TEMPLATES, fs, cls, pc, it, trace, warned>>

Call_run_drawmembrane ==
    /\ pc = "idle"
    /\ \E kw \in DrawmembraneKwargs, rc \in ExitCodes :
          last' = run_drawmembrane(self, DRAWMEMBRANE, kw, rc)
    /\ UNCHANGED <<DRAWMEMBRANE, TEMPLATES, fs, cls, self, pc, it, trace,
                   warned>>

(* generate(): one action per statement; an exception ends the run *)

\* a statement of generate that renders: the run starts over when first
GenWrite(stage, first, next) ==
    LET r == write(self, fs, TEMPLATES, stage, NoKwargs)
    IN  /\ fs' = r.fs
        /\ last' = r.ev
        /\ trace' = IF first THEN <<r.ev>> ELSE Append(trace, r.ev)
        /\ pc' = IF r.ev.err = "none" THEN next ELSE "failed"
        /\ UNCHANGED <<DRAWMEMBRANE, TEMPLATES, cls, self, warned>>

\* a statement of generate that calls an external tool
GenCall(ev, next) ==
    /\ last' = ev
    /\ trace' = Append(trace, ev)
    /\ pc' = IF ev.err = "none" THEN next ELSE "failed"
    /\ UNCHANGED <<DRAWMEMBRANE, TEMPLATES, fs, cls, self, warned>>

Startable == pc \in {"idle", "done", "failed"}

\* line 187
APBSmem_generate_write_dummy ==
    /\ cls = "APBSmem" /\ Startable
    /\ GenWrite("dummy", TRUE, "L188")
    /\ it' = it

\* line 188
APBSmem_generate_run_apbs ==
    /\ cls = "APBSmem" /\ pc = "L188"
    /\ \E rc \in ExitCodes : GenCall(run_apbs(self, "dummy", rc), "L189")
    /\ it' = it

\* line 189
APBSmem_generate_run_drawmembrane ==
    /\ cls = "APBSmem" /\ pc = "L189"
    /\ \E rc \in ExitCodes :
          GenCall(run_drawmembrane(self, DRAWMEMBRANE, NoKwargs, rc), "L190")
    /\ it' = it

\* line 190
APBSmem_generate_write_solvation ==
    /\ cls = "APBSmem" /\ pc = "L190"
    /\ GenWrite("solvation", FALSE, "done")
    /\ it' = it

\* line 268
BornAPBSmem_generate_write_born_dummy ==
    /\ cls = "BornAPBSmem" /\ Startable
    /\ GenWrite("born_dummy", TRUE, "L269")
    /\ it' = it

\* line 269; the loop of line 270 starts at the first infix
BornAPBSmem_generate_run_apbs ==
    /\ cls = "BornAPBSmem" /\ pc = "L269"
    /\ \E rc \in ExitCodes : GenCall(run_apbs(self, "born_dummy", rc), "L270")
    /\ it' = 1

\* the loop of lines 270-271 calling run_drawmembrane() without its infix
BornAPBSmem_generate_run_drawmembrane_noinfix ==
    /\ cls = "BornAPBSmem" /\ pc = "L270"
    /\ \E rc \in ExitCodes :
          GenCall(run_drawmembrane(self, DRAWMEMBRANE, NoKwargs, rc),
                  IF it < Len(self.infices) THEN "L270" ELSE "L272")
    /\ it' = IF it < Len(self.infices) THEN it + 1 ELSE it

\* lines 270-271: one pass of the loop
BornAPBSmem_generate_run_drawmembrane ==
    /\ cls = "BornAPBSmem" /\ pc = "L270"
    /\ \E rc \in ExitCodes :
          GenCall(run_drawmembrane(self, DRAWMEMBRANE,
                                   [infix |-> self.infices[it]], rc),
                  IF it < Len(self.infices) THEN "L270" ELSE "L272")
    /\ it' = IF it < Len(self.infices) THEN it + 1 ELSE it

\* line 272
BornAPBSmem_generate_write_born_run ==
    /\ cls = "BornAPBSmem" /\ pc = "L272"
    /\ GenWrite("born_run", FALSE, "done")
    /\ it' = it

Next ==
    \/ New_APBSmem
    \/ New_BornAPBSmem
    \/ Call_write
    \/ Call_run_apbs
    \/ Call_run_drawmembrane
    \/ APBSmem_generate_write_dummy
    \/ APBSmem_generate_run_apbs
    \/ APBSmem_generate_run_drawmembrane
    \/ APBSmem_generate_write_solvation
    \/ BornAPBSmem_generate_write_born_dummy
    \/ BornAPBSmem_generate_run_apbs
    \/ BornAPBSmem_generate_run_drawmembrane
    \/ BornAPBSmem_generate_write_born_run

Spec == Init /\ [][Next]_vars

----------------------------------------------------------------------------
(* Reading the record of a generate() run *)

\* generate has been entered (the run may be over)
InRun == pc \notin {"new", "raised", "idle"}

\* generate has returned or raised
RunOver == pc \in {"done", "failed"}

\* positions of the run at which the solver process was spawned
SolverCalls ==
    {i \in DOMAIN trace : trace[i].op = "run_apbs" /\ trace[i].called}

\* positions of the run at which the geometry tool was spawned
GeometryCalls ==
    {i \in DOMAIN trace : trace[i].op = "run_drawmembrane" /\ trace[i].called}

\* positions of the run at which the input file of stage was written
Written(stage) ==
    {i \in DOMAIN trace : /\ trace[i].op = "write"
                          /\ trace[i].stage = stage
                          /\ trace[i].err = "none"}

\* positions of the run at which the input file of stage was opened
Opened(stage) ==
    {i \in DOMAIN trace : /\ trace[i].op = "write"
                          /\ trace[i].stage = stage
                          /\ trace[i].opened}

\* every process spawned so far in the run has exited with code 0
AllExitedZero == \A i \in DOMAIN trace : trace[i].called => trace[i].rc = 0

\* the final stage of the instance's pipeline
FinalStage == IF cls = "APBSmem" THEN "solvation" ELSE "born_run"

----------------------------------------------------------------------------
(* C1: single-window setup, solver and geometry tool exit 0: when generate  *)
(* is over the solver has been invoked exactly once, on the dummy stage and *)
(* after the dummy input was written, the geometry tool exactly once, after *)
(* the solver, and the solvation input has been written after the geometry  *)
(* invocation.                                                              *)
C1_SingleWindowSequence ==
    (/\ cls = "APBSmem"
     /\ RunOver
     /\ Written("dummy") # {}
     /\ AllExitedZero)
    => /\ Cardinality(SolverCalls) = 1
       /\ Cardinality(GeometryCalls) = 1
       /\ \A s \in SolverCalls :
             /\ trace[s].stage = "dummy"
             /\ \E w \in Written("dummy") : w < s
             /\ \A g \in GeometryCalls : s < g
       /\ \E w \in Written("solvation") : \A g \in GeometryCalls : g < w

\* {_prot, _cpx} x {L, M, S}
C2_Infixes ==
    {"_prot_L", "_prot_M", "_prot_S", "_cpx_L", "_cpx_M", "_cpx_S"}

(* C2: multi-window setup.  In every state of a run: the solver is invoked  *)
(* at most once and on born_dummy; every geometry invocation comes after a  *)
(* solver invocation that exited 0; the geometry invocations carry pairwise *)
(* distinct infixes of {_prot, _cpx} x {L, M, S}; born_run is rendered only *)
(* after six geometry invocations that exited 0.  When the run is over and  *)
(* every process exited 0: one solver invocation, six geometry invocations. *)
C2_MultiWindowSequence ==
    (cls = "BornAPBSmem" /\ InRun)
    => /\ Cardinality(SolverCalls) <= 1
       /\ \A s \in SolverCalls : trace[s].stage = "born_dummy"
       /\ \A g \in GeometryCalls :
             /\ \E s \in SolverCalls : s < g /\ trace[s].rc = 0
             /\ trace[g].cmd[2] \in C2_Infixes
             /\ \A h \in GeometryCalls :
                   trace[h].cmd[2] = trace[g].cmd[2] => h = g
       /\ \A w \in Opened("born_run") :
             /\ Cardinality(GeometryCalls) = 6
             /\ \A g \in GeometryCalls : g < w /\ trace[g].rc = 0
       /\ (RunOver /\ AllExitedZero /\ Written("born_dummy") # {})
          => /\ Cardinality(SolverCalls) = 1
             /\ {trace[g].cmd[2] : g \in GeometryCalls} = C2_Infixes
             /\ Cardinality(GeometryCalls) = 6

C2_Witness ==
    /\ cls = "BornAPBSmem"
    /\ pc = "done"
    /\ Cardinality(GeometryCalls) = 6
    /\ Written("born_run") = {Len(trace)}

(* C3: in both variants a solver invocation that exits nonzero is the last  *)
(* thing the run does: the run has failed, the solver was invoked once, the *)
(* geometry tool was never invoked and the final-stage input was not opened *)
C3_SolverFailureHalts ==
    \A s \in SolverCalls :
        trace[s].rc # 0
        => /\ pc = "failed"
           /\ s = Len(trace)
           /\ trace[s].err = "EnvironmentError"
           /\ Cardinality(SolverCalls) = 1
           /\ GeometryCalls = {}
           /\ Opened(FinalStage) = {}

C3_Witness ==
    /\ cls = "BornAPBSmem"
    /\ pc = "failed"
    /\ \E s \in SolverCalls : trace[s].rc # 0

(* C4: in both variants a geometry invocation that exits nonzero is the     *)
(* last thing the run does: the run has failed, no geometry invocation      *)
(* follows it or repeats its infix, and the final-stage input was not       *)
(* opened.                                                                  *)
C4_GeometryFailureHalts ==
    \A g \in GeometryCalls :
        trace[g].rc # 0
        => /\ pc = "failed"
           /\ g = Len(trace)
           /\ trace[g].err = "EnvironmentError"
           /\ \A h \in GeometryCalls : h <= g
           /\ \A h \in GeometryCalls :
                 trace[h].cmd[2] = trace[g].cmd[2] => h = g
           /\ Opened(FinalStage) = {}

\* the third of the six geometry invocations failed
C4_Witness ==
    /\ cls = "BornAPBSmem"
    /\ pc = "failed"
    /\ Cardinality(GeometryCalls) = 3
    /\ \E g \in GeometryCalls : trace[g].rc # 0 /\ trace[g].cmd[2] = "_prot_S"

(* C5: single-window setup, solver and geometry tool exit 0: generate ends  *)
(* in the success state, the solvation input file holds the rendered        *)
(* template, and the solver has not been run on the solvation stage.        *)
C5_SingleWindowSuccess ==
    (/\ cls = "APBSmem"
     /\ RunOver
     /\ Written("dummy") # {}
     /\ AllExitedZero)
    => /\ pc = "done"
       /\ fs[self.filenames["solvation"]].k = "rendered"
       /\ \A s \in SolverCalls : trace[s].stage # "solvation"

----------------------------------------------------------------------------
\* the instance lacks a slot that stage declares
C6_SlotMissing(stage) ==
    /\ cls # "none"
    /\ stage \in DOMAIN self.vars
    /\ \E i \in DOMAIN self.vars[stage] : self.vars[stage][i] \notin DOMAIN self

(* C6: a write(stage) on an instance that lacks a slot the stage declares  *)
(* ends with an error, does not open the stage's input file, and leaves    *)
(* every file as it was.                                                   *)
C6_MissingSlotNoFile ==
    [][(last'.op = "write" /\ C6_SlotMissing(last'.stage))
       => (last'.err # "none" /\ ~last'.opened /\ fs' = fs)]_vars

\* write('solvation') has failed next to a solvation file of an earlier run
C6_Witness ==
    /\ last.op = "write"
    /\ C6_SlotMissing(last.stage)
    /\ last.err = "KeyError"
    /\ last.stage \in DOMAIN self.filenames
    /\ fs[self.filenames[last.stage]] = Old

----------------------------------------------------------------------------
(* Grid inputs, as the claims name them *)

IsTriplet(a) == a.nd = 1 /\ Len(a.m[1]) = 3

IsTripletOfTriplets(a) ==
    a.nd = 2 /\ Len(a.m) = 3 /\ \A i \in 1..3 : Len(a.m[i]) = 3

DigitValue(c) ==
    CASE c = "0" -> 0 [] c = "1" -> 1 [] c = "2" -> 2 [] c = "3" -> 3
      [] c = "4" -> 4 [] c = "5" -> 5 [] c = "6" -> 6 [] c = "7" -> 7
      [] c = "8" -> 8 [] c = "9" -> 9

RECURSIVE ParseNat(_)
\* the number a sequence of decimal digits denotes
ParseNat(cs) ==
    IF Len(cs) = 1 THEN DigitValue(cs[1])
    ELSE 10 * ParseNat(SubSeq(cs, 1, Len(cs) - 1)) + DigitValue(cs[Len(cs)])

RECURSIVE SplitAtSpaces(_)
\* the fields of a text whose fields are separated by single spaces
SplitAtSpaces(cs) ==
    IF \A i \in DOMAIN cs : cs[i] # " " THEN <<cs>>
    ELSE LET i == CHOOSE j \in DOMAIN cs :
                     cs[j] = " " /\ \A h \in 1..(j - 1) : cs[h] # " "
         IN  <<SubSeq(cs, 1, i - 1)>>
             \o SplitAtSpaces(SubSeq(cs, i + 1, Len(cs)))

\* the vector a whitespace-joined text of decimal numbers denotes
ParseVector(cs) ==
    [i \in DOMAIN SplitAtSpaces(cs) |-> ParseNat(SplitAtSpaces(cs)[i])]

Levels == <<"L", "M", "S">>

(* C7: constructing BornAPBSmem with a dime that is neither a triplet nor  *)
(* a triplet of triplets raises TypeError at the dime check: there is no   *)
(* instance, no file has been written, no process has been spawned.        *)
C7_BadDimeShapeFails ==
    (/\ last.op = "BornAPBSmem.__init__"
     /\ "dime" \in DOMAIN last.kw
     /\ ~IsTriplet(last.kw.dime)
     /\ ~IsTripletOfTriplets(last.kw.dime))
    => /\ last.err = "TypeError"
       /\ last.stage = "dime"
       /\ cls = "none"
       /\ pc = "raised"
       /\ trace = <<>>
       /\ \A n \in DOMAIN fs : fs[n] \in {Absent, Old}

\* a 3x2 dime has been refused
C7_Witness ==
    /\ last.op = "BornAPBSmem.__init__"
    /\ "dime" \in DOMAIN last.kw
    /\ last.kw.dime.nd = 2
    /\ Len(last.kw.dime.m) = 3
    /\ Len(last.kw.dime.m[1]) = 2
    /\ last.err = "TypeError"

(* C8: after a successful BornAPBSmem construction with a dime input: a    *)
(* triplet is the row of each of the levels L, M, S; of a triplet of       *)
(* triplets row i is the row of level i; and DIME_XYZ_<level> is text that *)
(* reads back, field by field, as that row.                                *)
C8_DimePerLevel ==
    (/\ last.op = "BornAPBSmem.__init__"
     /\ last.err = "none"
     /\ "dime" \in DOMAIN last.kw)
    => LET given == last.kw.dime
           row(i) == IF IsTriplet(given) THEN given.m[1] ELSE given.m[i]
       IN  /\ IsTriplet(given) \/ IsTripletOfTriplets(given)
           /\ \A i \in 1..3 :
                 /\ self.dime.m[i] = row(i)
                 /\ ParseVector(self["DIME_XYZ_" \o Levels[i]]) = row(i)

\* the triplet (289, 321, 353) has been broadcast
C8_Witness ==
    /\ last.op = "BornAPBSmem.__init__"
    /\ last.err = "none"
    /\ "dime" \in DOMAIN last.kw
    /\ last.kw.dime = Vector(<<289, 321, 353>>)
    /\ self.DIME_XYZ_S
         = <<"2", "8", "9", " ", "3", "2", "1", " ", "3", "5", "3">>

(* C9: constructing BornAPBSmem with a glen input: a glen that is no       *)
(* triplet of triplets raises TypeError and leaves no instance; an         *)
(* accepted glen is stored as given, row i feeding GLEN_XYZ of level i.    *)
C9_GlenMatrixOnly ==
    (last.op = "BornAPBSmem.__init__" /\ "glen" \in DOMAIN last.kw)
    => IF IsTripletOfTriplets(last.kw.glen)
       THEN last.err = "none"
            => /\ self.glen = last.kw.glen
               /\ \A i \in 1..3 :
                     ParseVector(self["GLEN_XYZ_" \o Levels[i]])
                       = last.kw.glen.m[i]
       ELSE /\ last.err = "TypeError"
            /\ cls = "none"
            /\ pc = "raised"
            /\ self = NoKwargs

\* a single triplet for glen has been refused at the glen check
C9_Witness ==
    /\ last.op = "BornAPBSmem.__init__"
    /\ "glen" \in DOMAIN last.kw
    /\ IsTriplet(last.kw.glen)
    /\ last.stage = "glen"
    /\ last.err = "TypeError"

----------------------------------------------------------------------------
\* the numeric arguments of the geometry tool, in its order
C10_Names == <<"zmem", "lmem", "pdie", "Vmem", "conc", "Rtop", "Rbot">>

(* C10: the command line of a geometry-tool invocation.  As claimed: the   *)
(* tool, the infix (the override, else the suffix), then the str() of the  *)
(* instance's zmem, lmem, pdie, Vmem, conc, Rtop, Rbot.                    *)
C10_CommandLineOfInstance ==
    (last.op = "run_drawmembrane" /\ last.called)
    => /\ Len(last.cmd) = 9
       /\ last.cmd[1] = DRAWMEMBRANE
       /\ last.cmd[2] = IF "infix" \in DOMAIN last.kw THEN last.kw.infix
                        ELSE self.suffix
       /\ \A i \in 1..7 : last.cmd[i + 2] = str(self[C10_Names[i]])

(* C10 as amended: each numeric argument is the str() of the keyword       *)
(* override of that name when the call gives one, of the instance's value  *)
(* otherwise; with the documented defaults and infix _prot_L the arguments *)
(* are "_prot_L", "0.0", "40.0", "10.0", "0.0", "0.1", "0", "0".           *)
C10_CommandLine ==
    (last.op = "run_drawmembrane" /\ last.called)
    => /\ Len(last.cmd) = 9
       /\ last.cmd[1] = DRAWMEMBRANE
       /\ last.cmd[2] = IF "infix" \in DOMAIN last.kw THEN last.kw.infix
                        ELSE self.suffix
       /\ \A i \in 1..7 :
             last.cmd[i + 2]
               = str(IF C10_Names[i] \in DOMAIN last.kw
                     THEN last.kw[C10_Names[i]] ELSE self[C10_Names[i]])
       /\ (/\ DOMAIN last.kw = {"infix"}
           /\ last.kw.infix = "_prot_L"
           /\ self.zmem = FloatV(0) /\ self.lmem = FloatV(4000)
           /\ self.pdie = FloatV(1000) /\ self.Vmem = FloatV(0)
           /\ self.conc = FloatV(10)
           /\ self.Rtop = IntV(0) /\ self.Rbot = IntV(0))
          => SubSeq(last.cmd, 2, 9)
               = <<"_prot_L", <<"0", ".", "0">>, <<"4", "0", ".", "0">>,
                   <<"1", "0", ".", "0">>, <<"0", ".", "0">>,
                   <<"0", ".", "1">>, <<"0">>, <<"0">>>>

\* the geometry tool has been invoked with an override of zmem and with an
\* instance whose parameters are not the defaults
C10_Witness ==
    /\ last.op = "run_drawmembrane"
    /\ last.called
    /\ "zmem" \in DOMAIN last.kw
    /\ self.zmem = FloatV(-1050)
    /\ last.cmd[3] = <<"5", ".", "0">>
    /\ last.cmd[7] = <<"0", ".", "1", "5">>

----------------------------------------------------------------------------
\* the base names a file of a stage may carry
C11_BaseNames ==
    {n \o x : n \in Stages \cup {"mem_dummy", "mem_placeion"},
              x \in Suffixes \cup {""}}

(* C11: the command line of a solver invocation.  As claimed: the solver,  *)
(* '--output-file=<name>.out' and '<name>.in' with one base name <name>    *)
(* for both files, in the single-window and in the multi-window setup.     *)
C11_SharedBaseName ==
    (last.op = "run_apbs" /\ last.called)
        => \E n \in C11_BaseNames :
              last.cmd = <<APBS, "--output-file=" \o n \o ".out", n \o ".in">>

(* C11, as the code has it: the command line of a solver invocation is the *)
(* solver, '--output-file=<stage><suffix>.out' and the stage's entry of    *)
(* the filenames table.  The two share a base name in the single-window    *)
(* setup (<stage><suffix>); in the multi-window setup the output file is   *)
(* born_dummy.out or born_run.out and the input file mem_dummy.in or       *)
(* mem_placeion.in.                                                        *)
C11_SolverCommandLine ==
    (last.op = "run_apbs" /\ last.called)
        => /\ Len(last.cmd) = 3
           /\ last.cmd[1] = <<"apbs">>
           /\ cls = "APBSmem" =>
                 /\ last.cmd[2] = "--output-file=" \o last.stage \o self.suffix
                                      \o ".out"
                 /\ last.cmd[3] = last.stage \o self.suffix \o ".in"
           /\ (cls = "BornAPBSmem" /\ last.stage = "born_dummy") =>
                 /\ last.cmd[2] = "--output-file=born_dummy.out"
                 /\ last.cmd[3] = "mem_dummy.in"
           /\ (cls = "BornAPBSmem" /\ last.stage = "born_run") =>
                 /\ last.cmd[2] = "--output-file=born_run.out"
                 /\ last.cmd[3] = "mem_placeion.in"

\* the solver was called within generate on a multi-window instance, and on
\* a single-window instance with a suffix
C11_Witness ==
    /\ last.op = "run_apbs" /\ last.called
    /\ \/ cls = "BornAPBSmem" /\ InRun /\ last.cmd[3] = "mem_dummy.in"
       \/ cls = "APBSmem" /\ InRun /\ last.cmd[3] = "dummy_M.in"

----------------------------------------------------------------------------
\* the last operation was a constructor call that reached BaseMem.__init__
IsConstruction ==
    /\ last.op \in {"APBSmem.__init__", "BornAPBSmem.__init__"}
    /\ last.stage = "super"

(* C12: in every constructed instance the solvent dielectric sdie is 80.0  *)
(* and the membrane dielectric mdie is 2.0, whatever keywords the caller   *)
(* supplied.                                                               *)
C12_FixedDielectrics ==
    cls # "none" => /\ self.sdie = FloatV(8000)
                    /\ self.mdie = FloatV(200)

----------------------------------------------------------------------------
\* the parameter values of a construction without keywords, by attribute
C13_Defaults ==
    [zmem |-> FloatV(0), lmem |-> FloatV(4000), Vmem |-> FloatV(0),
     pdie |-> FloatV(1000), sdie |-> FloatV(8000), mdie |-> FloatV(200),
     hdie |-> FloatV(2000), lhgp |-> FloatV(0), Rtop |-> IntV(0),
     Rbot |-> IntV(0), temperature |-> FloatV(29815), conc |-> FloatV(10)]

\* the documented names and the attribute each of them stands for
C13_Documented ==
    [zmem |-> "zmem", lmem |-> "lmem", pdie |-> "pdie", sdie |-> "sdie",
     mdie |-> "mdie", headgroup_die |-> "hdie", headgroup_length |-> "lhgp",
     Rtop |-> "Rtop", Rbot |-> "Rbot", temperature |-> "temperature",
     conc |-> "conc"]

\* the keywords of the constructor and the attribute each of them sets
C13_Keywords ==
    [zmem |-> "zmem", lmem |-> "lmem", Vmem |-> "Vmem", pdie |-> "pdie",
     sdie |-> "sdie", mdie |-> "mdie", headgroup_die |-> "hdie",
     headgroup_l |-> "lhgp", Rtop |-> "Rtop", Rbot |-> "Rbot",
     temp |-> "temperature", conc |-> "conc"]

\* the keywords of the last call that are parameters of the membrane
C13_Given == DOMAIN last.kw \ {"dime", "glen", "comment"}

\* the instance has the value given under keyword k of names, else the default
C13_Replaced(names) ==
    \A k \in DOMAIN names :
        self[names[k]] = IF k \in C13_Given THEN last.kw[k]
                         ELSE C13_Defaults[names[k]]

(* C13: construction with defaults and overrides.  As claimed: without     *)
(* keywords the instance has zmem 0.0, lmem 40.0, pdie 10.0, sdie 80.0,    *)
(* mdie 2.0, headgroup_die 20.0, headgroup_length 0.0, Rtop 0, Rbot 0,     *)
(* temperature 298.15 and conc 0.1; and a keyword of one of these names    *)
(* replaces that value and no other.                                       *)
C13_DocumentedNamesOverride ==
    (IsConstruction /\ C13_Given \subseteq DOMAIN C13_Documented)
        => /\ last.err = "none"
           /\ C13_Replaced(C13_Documented)

(* C13, as the code has it: the same defaults; the keywords are zmem,      *)
(* lmem, Vmem, pdie, sdie, mdie, headgroup_die, headgroup_l, Rtop, Rbot,   *)
(* temp and conc, and each given one replaces its value and no other.      *)
(* 'headgroup_length' and 'temperature' are no keywords: a construction    *)
(* given one of them, or any other name, ends with a TypeError.            *)
C13_KeywordsOverride ==
    IsConstruction
        => /\ last.err = IF C13_Given \subseteq DOMAIN C13_Keywords
                         THEN "none" ELSE "TypeError"
           /\ last.err = "none" => C13_Replaced(C13_Keywords)
           /\ C13_Given \cap {"headgroup_length", "temperature"} # {}
                 => cls = "none"

\* an instance was constructed with the temperature, the solvent dielectric
\* and the headgroup length given and the membrane thickness left out
C13_Witness ==
    /\ IsConstruction /\ last.err = "none"
    /\ {"temp", "sdie", "headgroup_l"} \subseteq C13_Given
    /\ self.temperature = FloatV(31000)
    /\ self.lhgp = FloatV(800)
    /\ self.lmem = FloatV(4000)

----------------------------------------------------------------------------
(* C14: a run of generate, of either class, that ends with a missing slot  *)
(* in the rendering of any stage, the final one included, has opened no    *)
(* file and spawned no process; and a construction that failed has left    *)
(* every file as it was and spawned nothing.                               *)
C14_FailsBeforeAnyEffect ==
    /\ (/\ InRun /\ pc = "failed"
        /\ last.op = "write" /\ last.err = "KeyError"
        /\ C6_SlotMissing(last.stage))
           => \A i \in DOMAIN trace : ~trace[i].opened /\ ~trace[i].called
    /\ pc = "raised"
           => /\ trace = <<>>
              /\ \A n \in DOMAIN fs : fs[n] \in {Absent, Old}

----------------------------------------------------------------------------
(* C15: a write(stage) that directly follows a write of the same stage     *)
(* with the same overrides leaves every file with the content the first    *)
(* call left, names the same file and ends the same way.                   *)
C15_WriteIsIdempotent ==
    [][(/\ last.op = "write" /\ last'.op = "write"
        /\ last'.stage = last.stage
        /\ last'.kw = last.kw)
          => /\ fs' = fs
             /\ last'.file = last.file
             /\ last'.err = last.err]_vars

\* a stage has been rendered with overrides over its own earlier rendering
C15_Witness ==
    /\ last.op = "write" /\ last.err = "none"
    /\ "comment" \in DOMAIN last.kw
    /\ last.before = Rendered(last.stage, fs[last.file].subst)
    /\ fs[last.file] = last.before

----------------------------------------------------------------------------
(* C16: no step taken on a constructed instance (a render, a solver or     *)
(* geometry invocation, with or without overrides, a statement of          *)
(* generate) changes its table of input file names or its suffix, so the   *)
(* input and the output file name of every stage stay what construction    *)
(* made them.                                                              *)
C16_FilenamesFixed ==
    [][cls # "none"
          => /\ self'.filenames = self.filenames
             /\ self'.suffix = self.suffix
             /\ \A stage \in DOMAIN self.filenames :
                   /\ self'.filenames[stage] = self.filenames[stage]
                   /\ outfile(self', stage) = outfile(self, stage)]_vars

\* the geometry tool has been called with an infix of its own on an instance
\* that still has the names of its construction
C16_Witness ==
    /\ cls = "APBSmem"
    /\ last.op = "run_drawmembrane" /\ last.called
    /\ last.cmd[2] = "_y"
    /\ self.suffix = "_S"
    /\ self.filenames = [dummy |-> "dummy_S.in", solvation |-> "solvation_S.in"]

----------------------------------------------------------------------------
\* the statements of generate, by class
C17_Statements ==
    [APBSmem     |-> <<"write", "run_apbs", "run_drawmembrane", "write">>,
     BornAPBSmem |-> <<"write", "run_apbs", "run_drawmembrane",
                       "run_drawmembrane", "run_drawmembrane",
                       "run_drawmembrane", "run_drawmembrane",
                       "run_drawmembrane", "write">>]

\* what a recorded operation did, but for the path of the geometry tool
C17_Signature(e) ==
    [op |-> e.op, stage |-> e.stage, kw |-> e.kw, file |-> e.file,
     opened |-> e.opened, called |-> e.called, rc |-> e.rc, err |-> e.err,
     args |-> IF e.op = "run_drawmembrane" /\ e.called THEN Tail(e.cmd)
              ELSE e.cmd]

(* C17: the geometry tool's name is not 'draw_membrane2a'.  Construction   *)
(* warns exactly then, and fails only for keywords it does not know; and   *)
(* every run of generate is what it is with the compatible name: the       *)
(* statements of generate in their order up to the first error, each       *)
(* geometry invocation with the arguments and the outcome it has for       *)
(* 'draw_membrane2a', only the path of the tool being the configured one.  *)
C17_IncompatibleToolOnlyWarns ==
    /\ IsConstruction
          => /\ warned = (DRAWMEMBRANE[Len(DRAWMEMBRANE)] # "draw_membrane2a")
             /\ C13_Given \subseteq DOMAIN C13_Keywords => last.err = "none"
    /\ InRun
          => /\ Len(trace) <= Len(C17_Statements[cls])
             /\ \A i \in DOMAIN trace :
                   /\ trace[i].op = C17_Statements[cls][i]
                   /\ i < Len(trace) => trace[i].err = "none"
                   /\ trace[i].op = "run_drawmembrane"
                         => /\ C17_Signature(trace[i])
                                 = C17_Signature(
                                       run_drawmembrane(self,
                                                        <<"draw_membrane2a">>,
                                                        trace[i].kw,
                                                        trace[i].rc))
                            /\ trace[i].called
                                  => trace[i].cmd[1] = DRAWMEMBRANE
             /\ pc = "done" <=> /\ Len(trace) = Len(C17_Statements[cls])
                                /\ trace[Len(trace)].err = "none"

\* a multi-window run has ended well with a geometry tool of another name,
\* after construction warned
C17_Witness ==
    /\ warned
    /\ cls = "BornAPBSmem" /\ pc = "done"
    /\ Len(trace) = 9
    /\ trace[8].cmd[1] = <<"usr", "local", "bin", "draw_membrane2">>
    /\ trace[8].cmd[2] = "_cpx_S"

----------------------------------------------------------------------------
(* C18: in a run of the multi-window setup any two geometry invocations    *)
(* carry different infixes and the same tool and numeric arguments; once   *)
(* the loop is through there have been six of them, one for each of        *)
(* _prot_L, _prot_M, _prot_S, _cpx_L, _cpx_M, _cpx_S.                      *)
C18_SixDistinctInfixes ==
    (cls = "BornAPBSmem" /\ InRun)
        => /\ \A i, j \in GeometryCalls :
                 /\ Len(trace[i].cmd) = 9
                 /\ trace[i].cmd[1] = trace[j].cmd[1]
                 /\ SubSeq(trace[i].cmd, 3, 9) = SubSeq(trace[j].cmd, 3, 9)
                 /\ i # j => trace[i].cmd[2] # trace[j].cmd[2]
           /\ pc \in {"L272", "done"}
                 => /\ Cardinality(GeometryCalls) = 6
                    /\ {trace[i].cmd[2] : i \in GeometryCalls}
                          = {"_prot_L", "_prot_M", "_prot_S",
                             "_cpx_L", "_cpx_M", "_cpx_S"}

\* the loop is through on an instance whose parameters are not the defaults
C18_Witness ==
    /\ cls = "BornAPBSmem" /\ pc = "L272"
    /\ Cardinality(GeometryCalls) = 6
    /\ self.zmem = FloatV(-1050)
    /\ trace[3].cmd[3] = <<"-", "1", "0", ".", "5">>
    /\ trace[8].cmd[3] = <<"-", "1", "0", ".", "5">>

----------------------------------------------------------------------------
(* C19: a step that renders a stage or invokes the geometry tool, with or  *)
(* without overrides, ending well or not, leaves every attribute of the    *)
(* instance as it was; and a call without overrides, whatever the calls    *)
(* before it were given, renders the instance's own values, and passes the *)
(* geometry tool the instance's own values.                                *)
C19_OverridesDoNotLeak ==
    [][last'.op \in {"write", "run_drawmembrane"}
          => /\ self' = self
             /\ (/\ last'.op = "write" /\ last'.err = "none"
                 /\ last'.kw = NoKwargs)
                   => \A k \in DOMAIN fs'[last'.file].subst :
                         fs'[last'.file].subst[k] = format_s(k, self[k])
             /\ (/\ last'.op = "run_drawmembrane" /\ last'.called
                 /\ DOMAIN last'.kw \subseteq {"infix"})
                   => \A i \in 1..7 :
                         last'.cmd[i + 2] = str(self[C10_Names[i]])]_vars

\* a stage rendered with overrides has been rendered again without them
C19_Witness ==
    /\ last.op = "write" /\ last.err = "none"
    /\ last.kw = NoKwargs
    /\ last.before.k = "rendered"
    /\ last.before.subst["conc"] = <<"0", ".", "2", "5">>
    /\ self.conc = FloatV(10)
    /\ fs[last.file].subst["conc"] = <<"0", ".", "1">>

----------------------------------------------------------------------------
(* C20: after a write(stage) that ended with an error, whatever the error, *)
(* the stage's input file is what it was before the call: not created, not *)
(* emptied, not changed.                                                   *)
C20_FailedWriteKeepsFile ==
    (last.op = "write" /\ last.err # "none")
        => /\ ~last.opened
           /\ last.file # "" => fs[last.file] = last.before

============================================================================
